---- MODULE Spec2Model ----
(***************************************************************************)
(* A model of cloudify/context.py: the context object handed to a plugin   *)
(* task (CloudifyContext), the capabilities of the nodes it depends on     *)
(* (ContextCapabilities), and the storage collaborators get_node_state /   *)
(* update_node_state of cloudify/manager.py that the context calls.        *)
(*                                                                         *)
(* Python values are modelled as follows.  A dict is a function whose      *)
(* DOMAIN is the set of its keys.  An optional value (None or an object)   *)
(* is a sequence of length 0 or 1: None is <<>>, the object x is <<x>>.    *)
(* A raised exception is recorded in the result of the operation.          *)
(***************************************************************************)
EXTENDS Integers, Sequences, FiniteSets, TLC

VARIABLES
    _context,          \* CloudifyContext._context: the invocation payload (a dict)
    _node_state,       \* CloudifyContext._node_state: None or the cached NodeState
    _lifecycle_state,  \* CloudifyContext._lifecycle_state: None, STARTED or STOPPED
    storage,           \* the storage behind manager.py: node id -> persisted runtime properties
    calls,             \* the storage collaborator calls made so far, in order
    invoked_with,      \* the persisted record of every node when the invocation started
    _logger,           \* CloudifyContext._logger: None or the name of the logger it holds
    loggers,           \* the logging module's registry: logger name -> the logger's fields
    _related,          \* CloudifyContext._related: None or the CloudifyRelatedNode
    constructed,       \* "no" before CloudifyContext(ctx), then "yes", or "failed" when it raised
    last_set,          \* the runtime properties set so far in this invocation: key -> last value
    result             \* what the last operation on the context did and returned

\* What the operations on the node's state and on the capabilities never touch.
others == <<_logger, loggers, _related, constructed>>

vars == <<_context, _node_state, _lifecycle_state, storage, calls, invoked_with,
          others, last_set, result>>

\* ------------------------------------------------------------------ bounds

\* Declared and runtime property values of the node in context are 1..MaxValue.
MaxValue == 2
\* At most MaxDeps dependency nodes publish capabilities.
MaxDeps == 3
\* At most MaxCalls storage collaborator calls are made in one invocation.
MaxCalls == 5

\* At most MaxHandlers handlers are attached to a logger before the context
\* takes it.
MaxHandlers == 3

Keys == {"port", "host"}
Values == 1..MaxValue
\* The values dependency nodes publish as capabilities.
CapValues == {"10.0.0.1", "10.0.0.2"}
NodeIds == {"db1"}
DepNames == <<"vm1", "vm2", "vm3", "vm4", "vm5", "vm6">>
DepIds == {DepNames[i] : i \in 1..MaxDeps}

\* ------------------------------------------------------------------ values

None == <<>>
Some(x) == <<x>>
EmptyDict == [k \in {} |-> 0]
\* Every dict with keys among K and values among V.
Dicts(K, V) == UNION {[D -> V] : D \in SUBSET K}
\* d[k] = v on a dict, adding the key when it is new.
DictPut(d, k, v) == [x \in DOMAIN d \cup {k} |-> IF x = k THEN v ELSE d[x]]
\* The dict `full` cut down to the keys in D: the payload fields that are present.
Restrict(full, D) == [f \in D |-> full[f]]
\* dict.get(key): None when the key is missing.
DictGet(d, k) == IF k \in DOMAIN d THEN Some(d[k]) ELSE None
\* Every order in which the members of S can be enumerated.
Orders(S) == {o \in [1..Cardinality(S) -> S] : \A i, j \in DOMAIN o : o[i] = o[j] => i = j}

\* The exceptions the module raises, by the message that tells them apart.
NoNodeInContext == "RuntimeError: invocation is not in a context of node"
NodeRequired == "RuntimeError: Invocation requires a node in context"
CapabilityAmbiguous == "RuntimeError: capability ambiguity"
CapabilityNotFound == "KeyError: capability not found"
KeyNotFound == "KeyError"

\* The KeyError of a related record indexed by a field it does not carry.
KeyErrorNodeId == "KeyError: 'node_id'"
KeyErrorNodeProperties == "KeyError: 'node_properties'"

\* Whatever update_node_state raises when the storage cannot be written.
StorageError == "Exception raised by update_node_state"

GET_NODE_STATE == "get_node_state"
UPDATE_NODE_STATE == "update_node_state"

\* The record of one operation: its name, its arguments (<<>>, <<key>> or
\* <<key, value>>), whether it returned ("ok") or which exception it raised,
\* the value returned (None when it raised), and the storage calls it made.
Returned(op, args, value, made) ==
    [op |-> op, args |-> args, status |-> "ok", value |-> Some(value), made |-> made]
Raised(op, args, exc, made) ==
    [op |-> op, args |-> args, status |-> exc, value |-> None, made |-> made]
Constructed == [op |-> "__init__", args |-> <<>>, status |-> "ok", value |-> None, made |-> <<>>]

\* ------------------------------------------------------------------ manager.py

\* get_node_state(node_id): the persisted record of the node, as a NodeState
\* object of its own (a later change to it is not a change to the storage).
get_node_state(node_id) == [id |-> node_id, runtime_properties |-> storage[node_id]]
\* update_node_state(node_state): the storage after the record was persisted.
update_node_state(node_state) ==
    [storage EXCEPT ![node_state.id] = node_state.runtime_properties]
\* NodeState.__getitem__, __setitem__ and __contains__: the record is a small
\* key-value store over its runtime properties.
NodeState__contains__(node_state, key) == key \in DOMAIN node_state.runtime_properties
NodeState__getitem__(node_state, key) == DictGet(node_state.runtime_properties, key)
NodeState__setitem__(node_state, key, value) ==
    [node_state EXCEPT !.runtime_properties = DictPut(@, key, value)]

\* ------------------------------------------------------------------ ContextCapabilities

\* CloudifyContext.__init__ hands ContextCapabilities the payload's
\* 'capabilities', or {} when the payload has none.
_capabilities ==
    IF "capabilities" \in DOMAIN _context THEN _context["capabilities"] ELSE EmptyDict

\* The loop of _find_item without the `if found: raise`: the last dependency
\* map that holds the key wins.
RECURSIVE _find_item_loop_last_wins(_, _, _, _)
_find_item_loop_last_wins(key, values, found, value) ==
    IF values = <<>>
    THEN [raised |-> FALSE, found |-> found, value |-> value]
    ELSE LET caps == Head(values) IN
         IF key \in DOMAIN caps
         THEN _find_item_loop_last_wins(key, Tail(values), TRUE, Some(caps[key]))
         ELSE _find_item_loop_last_wins(key, Tail(values), found, value)

\* The loop of _find_item over `values`, the dependency maps still to scan.
RECURSIVE _find_item_loop(_, _, _, _)
_find_item_loop(key, values, found, value) ==
    IF values = <<>>
    THEN [raised |-> FALSE, found |-> found, value |-> value]
    ELSE LET caps == Head(values) IN
         IF key \in DOMAIN caps
         THEN IF found
              THEN [raised |-> TRUE, found |-> found, value |-> value]
              ELSE _find_item_loop(key, Tail(values), TRUE, Some(caps[key]))
         ELSE _find_item_loop(key, Tail(values), found, value)

\* _find_item(key) scanning all dependency maps but the last one enumerated.
_find_item_skips_last(key, order) ==
    _find_item_loop(key, [i \in 1..(Len(order) - 1) |-> _capabilities[order[i]]], FALSE, None)

\* _find_item(key), with self._capabilities.values() enumerated in `order`.
_find_item(key, order) ==
    _find_item_loop(key, [i \in DOMAIN order |-> _capabilities[order[i]]], FALSE, None)

\* __getitem__ without the `if not found: raise KeyError`: a missing
\* capability reads as None.
ContextCapabilities__getitem__no_raise(key, order) ==
    LET r == _find_item(key, order) IN
    IF r.raised THEN Raised("capabilities.__getitem__", <<key>>, CapabilityAmbiguous, <<>>)
    ELSE Returned("capabilities.__getitem__", <<key>>,
                  IF r.found THEN r.value[1] ELSE None, <<>>)

\* ContextCapabilities.__getitem__(key)
ContextCapabilities__getitem__(key, order) ==
    LET r == _find_item(key, order) IN
    IF r.raised THEN Raised("capabilities.__getitem__", <<key>>, CapabilityAmbiguous, <<>>)
    ELSE IF ~r.found THEN Raised("capabilities.__getitem__", <<key>>, CapabilityNotFound, <<>>)
    ELSE Returned("capabilities.__getitem__", <<key>>, r.value[1], <<>>)

\* ContextCapabilities.__contains__(key)
ContextCapabilities__contains__(key, order) ==
    LET r == _find_item(key, order) IN
    IF r.raised THEN Raised("capabilities.__contains__", <<key>>, CapabilityAmbiguous, <<>>)
    ELSE Returned("capabilities.__contains__", <<key>>, r.found, <<>>)

\* ContextCapabilities.get_all()
get_all == Returned("capabilities.get_all", <<>>, _capabilities, <<>>)

\* ------------------------------------------------------------------ CloudifyRelatedNode

\* CloudifyRelatedNode.__init__ that reads the related node's id before it
\* looks for 'capabilities' in the payload.
CloudifyRelatedNode__init__eager_id(ctx) ==
    LET rel == ctx["related"] IN
    IF "node_id" \notin DOMAIN rel
    THEN [raised |-> TRUE, node |-> None]
    ELSE IF "capabilities" \in DOMAIN ctx /\ rel["node_id"] \in DOMAIN ctx["capabilities"]
    THEN [raised |-> FALSE,
          node |-> Some([_related |-> rel,
                         _runtime_properties |-> ctx["capabilities"][rel["node_id"]]])]
    ELSE [raised |-> FALSE,
          node |-> Some([_related |-> rel, _runtime_properties |-> EmptyDict])]

\* CloudifyRelatedNode.__init__(ctx): whether it raised (KeyError: 'node_id'),
\* and the object it made.  `self.node_id` is evaluated only when the payload
\* has 'capabilities'.
CloudifyRelatedNode__init__(ctx) ==
    LET rel == ctx["related"] IN
    IF "capabilities" \in DOMAIN ctx
    THEN IF "node_id" \notin DOMAIN rel
         THEN [raised |-> TRUE, node |-> None]
         ELSE IF rel["node_id"] \in DOMAIN ctx["capabilities"]
         THEN [raised |-> FALSE,
               node |-> Some([_related |-> rel,
                              _runtime_properties |-> ctx["capabilities"][rel["node_id"]]])]
         ELSE [raised |-> FALSE,
               node |-> Some([_related |-> rel, _runtime_properties |-> EmptyDict])]
    ELSE [raised |-> FALSE,
          node |-> Some([_related |-> rel, _runtime_properties |-> EmptyDict])]

\* CloudifyRelatedNode.node_id
CloudifyRelatedNode_node_id(self) ==
    IF "node_id" \in DOMAIN self._related
    THEN Returned("related.node_id", <<>>, self._related["node_id"], <<>>)
    ELSE Raised("related.node_id", <<>>, KeyErrorNodeId, <<>>)

\* CloudifyRelatedNode.properties
CloudifyRelatedNode_properties(self) ==
    IF "node_properties" \in DOMAIN self._related
    THEN Returned("related.properties", <<>>, self._related["node_properties"], <<>>)
    ELSE Raised("related.properties", <<>>, KeyErrorNodeProperties, <<>>)

\* CloudifyRelatedNode.runtime_properties
CloudifyRelatedNode_runtime_properties(self) ==
    Returned("related.runtime_properties", <<>>, self._runtime_properties, <<>>)

\* CloudifyRelatedNode.__getitem__ with the two lookups swapped: the runtime
\* property wins.
CloudifyRelatedNode__getitem__runtime_first(self, key) ==
    IF "node_properties" \notin DOMAIN self._related
    THEN Raised("related.__getitem__", <<key>>, KeyErrorNodeProperties, <<>>)
    ELSE IF key \in DOMAIN self._runtime_properties
    THEN Returned("related.__getitem__", <<key>>, self._runtime_properties[key], <<>>)
    ELSE IF key \in DOMAIN self._related["node_properties"]
    THEN Returned("related.__getitem__", <<key>>, self._related["node_properties"][key], <<>>)
    ELSE Raised("related.__getitem__", <<key>>, KeyNotFound, <<>>)

\* CloudifyRelatedNode.__getitem__(key)
CloudifyRelatedNode__getitem__(self, key) ==
    IF "node_properties" \notin DOMAIN self._related
    THEN Raised("related.__getitem__", <<key>>, KeyErrorNodeProperties, <<>>)
    ELSE IF key \in DOMAIN self._related["node_properties"]
    THEN Returned("related.__getitem__", <<key>>, self._related["node_properties"][key], <<>>)
    ELSE IF key \in DOMAIN self._runtime_properties
    THEN Returned("related.__getitem__", <<key>>, self._runtime_properties[key], <<>>)
    ELSE Raised("related.__getitem__", <<key>>, KeyNotFound, <<>>)

\* CloudifyRelatedNode.__contains__(key)
CloudifyRelatedNode__contains__(self, key) ==
    IF "node_properties" \notin DOMAIN self._related
    THEN Raised("related.__contains__", <<key>>, KeyErrorNodeProperties, <<>>)
    ELSE Returned("related.__contains__", <<key>>,
                  \/ key \in DOMAIN self._related["node_properties"]
                  \/ key \in DOMAIN self._runtime_properties, <<>>)

\* ------------------------------------------------------------------ CloudifyContext

STARTED == "started"
STOPPED == "stopped"

\* CloudifyContext.node_id
node_id == DictGet(_context, "node_id")
\* CloudifyContext.properties
properties == DictGet(_context, "node_properties")

\* key is a declared property: `self.properties is not None and key in self.properties`
InProperties(key) == properties # None /\ key \in DOMAIN properties[1]

\* Whether one more storage call fits the bound of the model.
CanCall(made) == Len(calls) + Len(made) <= MaxCalls

\* _get_node_state_if_needed() without the `self._node_state is None` test:
\* the state is fetched on every call.
_get_node_state_if_needed_always(ns) ==
    IF node_id = None
    THEN [raised |-> TRUE, node_state |-> ns, made |-> <<>>]
    ELSE [raised |-> FALSE, node_state |-> Some(get_node_state(node_id[1])),
          made |-> <<GET_NODE_STATE>>]

\* _get_node_state_if_needed() on the cached state ns: whether it raised, the
\* cache after it, and the storage calls it made.
_get_node_state_if_needed(ns) ==
    IF node_id = None
    THEN [raised |-> TRUE, node_state |-> ns, made |-> <<>>]
    ELSE IF ns = None
         THEN [raised |-> FALSE, node_state |-> Some(get_node_state(node_id[1])),
               made |-> <<GET_NODE_STATE>>]
         ELSE [raised |-> FALSE, node_state |-> ns, made |-> <<>>]

\* runtime_properties reading the storage itself on every access.
runtime_properties_uncached ==
    IF node_id = None
    THEN /\ result' = Raised("runtime_properties", <<>>, NoNodeInContext, <<>>)
         /\ UNCHANGED <<_context, _node_state, _lifecycle_state, storage, calls, invoked_with, others, last_set>>
    ELSE /\ CanCall(<<GET_NODE_STATE>>)
         /\ _node_state' = Some(get_node_state(node_id[1]))
         /\ calls' = Append(calls, GET_NODE_STATE)
         /\ result' = Returned("runtime_properties", <<>>,
                               get_node_state(node_id[1]).runtime_properties,
                               <<GET_NODE_STATE>>)
         /\ UNCHANGED <<_context, _lifecycle_state, storage, invoked_with, others, last_set>>

\* CloudifyContext.runtime_properties
runtime_properties ==
    LET r == _get_node_state_if_needed(_node_state) IN
    /\ CanCall(r.made)
    /\ _node_state' = r.node_state
    /\ calls' = calls \o r.made
    /\ result' = IF r.raised
                 THEN Raised("runtime_properties", <<>>, NoNodeInContext, r.made)
                 ELSE Returned("runtime_properties", <<>>,
                               r.node_state[1].runtime_properties, r.made)
    /\ UNCHANGED <<_context, _lifecycle_state, storage, invoked_with, others, last_set>>

\* __getitem__ with the two lookups swapped: the runtime property wins, the
\* declared one is the fallback.
CloudifyContext__getitem__runtime_first(key) ==
    LET r == _get_node_state_if_needed(_node_state) IN
    /\ CanCall(r.made)
    /\ _node_state' = r.node_state
    /\ calls' = calls \o r.made
    /\ result' =
          IF r.raised
          THEN Raised("__getitem__", <<key>>, NoNodeInContext, r.made)
          ELSE IF NodeState__contains__(r.node_state[1], key)
          THEN Returned("__getitem__", <<key>>,
                        NodeState__getitem__(r.node_state[1], key)[1], r.made)
          ELSE IF InProperties(key)
          THEN Returned("__getitem__", <<key>>, properties[1][key], r.made)
          ELSE Raised("__getitem__", <<key>>, KeyNotFound, r.made)
    /\ UNCHANGED <<_context, _lifecycle_state, storage, invoked_with, others, last_set>>

\* __getitem__ that fetches the NodeState for the lookup but keeps it cached
\* only when the key is found.
CloudifyContext__getitem__drops_on_miss(key) ==
    IF InProperties(key)
    THEN /\ result' = Returned("__getitem__", <<key>>, properties[1][key], <<>>)
         /\ UNCHANGED <<_context, _node_state, _lifecycle_state, storage, calls, invoked_with, others, last_set>>
    ELSE LET r == _get_node_state_if_needed(_node_state) IN
         /\ CanCall(r.made)
         /\ calls' = calls \o r.made
         /\ IF r.raised
            THEN /\ _node_state' = r.node_state
                 /\ result' = Raised("__getitem__", <<key>>, NoNodeInContext, r.made)
            ELSE IF ~NodeState__contains__(r.node_state[1], key)
            THEN /\ _node_state' = None
                 /\ result' = Raised("__getitem__", <<key>>, KeyNotFound, r.made)
            ELSE /\ _node_state' = r.node_state
                 /\ result' = Returned("__getitem__", <<key>>,
                                       NodeState__getitem__(r.node_state[1], key)[1], r.made)
         /\ UNCHANGED <<_context, _lifecycle_state, storage, invoked_with, others, last_set>>

\* CloudifyContext.__getitem__(key)
CloudifyContext__getitem__(key) ==
    IF InProperties(key)
    THEN /\ result' = Returned("__getitem__", <<key>>, properties[1][key], <<>>)
         /\ UNCHANGED <<_context, _node_state, _lifecycle_state, storage, calls, invoked_with, others, last_set>>
    ELSE LET r == _get_node_state_if_needed(_node_state) IN
         /\ CanCall(r.made)
         /\ _node_state' = r.node_state
         /\ calls' = calls \o r.made
         /\ result' =
               IF r.raised
               THEN Raised("__getitem__", <<key>>, NoNodeInContext, r.made)
               ELSE IF ~NodeState__contains__(r.node_state[1], key)
               THEN Raised("__getitem__", <<key>>, KeyNotFound, r.made)
               ELSE Returned("__getitem__", <<key>>,
                             NodeState__getitem__(r.node_state[1], key)[1], r.made)
         /\ UNCHANGED <<_context, _lifecycle_state, storage, invoked_with, others, last_set>>

\* __setitem__ that overrides a declared property in place and routes only
\* the other keys to the NodeState.
CloudifyContext__setitem__writes_declared(key, value) ==
    IF InProperties(key)
    THEN /\ _context' = [_context EXCEPT !["node_properties"][key] = value]
         /\ result' = Returned("__setitem__", <<key, value>>, None, <<>>)
         /\ UNCHANGED <<_node_state, _lifecycle_state, storage, calls, invoked_with, others>>
    ELSE LET r == _get_node_state_if_needed(_node_state) IN
         /\ CanCall(r.made)
         /\ calls' = calls \o r.made
         /\ IF r.raised
            THEN /\ _node_state' = r.node_state
                 /\ result' = Raised("__setitem__", <<key, value>>, NoNodeInContext, r.made)
            ELSE /\ _node_state' = Some(NodeState__setitem__(r.node_state[1], key, value))
                 /\ result' = Returned("__setitem__", <<key, value>>, None, r.made)
         /\ UNCHANGED <<_context, _lifecycle_state, storage, invoked_with, others>>

\* __setitem__ that persists the NodeState right after the assignment.
CloudifyContext__setitem__write_through(key, value) ==
    LET r == _get_node_state_if_needed(_node_state) IN
    IF r.raised
    THEN /\ result' = Raised("__setitem__", <<key, value>>, NoNodeInContext, r.made)
         /\ UNCHANGED <<_context, _node_state, _lifecycle_state, storage, calls, invoked_with, others>>
    ELSE LET written == NodeState__setitem__(r.node_state[1], key, value) IN
         /\ CanCall(r.made \o <<UPDATE_NODE_STATE>>)
         /\ calls' = calls \o r.made \o <<UPDATE_NODE_STATE>>
         /\ _node_state' = Some(written)
         /\ storage' = update_node_state(written)
         /\ result' = Returned("__setitem__", <<key, value>>, None,
                               r.made \o <<UPDATE_NODE_STATE>>)
         /\ UNCHANGED <<_context, _lifecycle_state, invoked_with, others>>

\* CloudifyContext.__setitem__(key, value)
CloudifyContext__setitem__(key, value) ==
    LET r == _get_node_state_if_needed(_node_state) IN
    /\ CanCall(r.made)
    /\ calls' = calls \o r.made
    /\ IF r.raised
       THEN /\ _node_state' = r.node_state
            /\ result' = Raised("__setitem__", <<key, value>>, NoNodeInContext, r.made)
       ELSE /\ _node_state' = Some(NodeState__setitem__(r.node_state[1], key, value))
            /\ result' = Returned("__setitem__", <<key, value>>, None, r.made)
    /\ UNCHANGED <<_context, _lifecycle_state, storage, invoked_with, others>>

\* __contains__ that fetches the NodeState before it looks at the declared
\* properties.
CloudifyContext__contains__fetch_first(key) ==
    LET r == _get_node_state_if_needed(_node_state) IN
    /\ CanCall(r.made)
    /\ _node_state' = r.node_state
    /\ calls' = calls \o r.made
    /\ result' =
          IF r.raised
          THEN Raised("__contains__", <<key>>, NoNodeInContext, r.made)
          ELSE Returned("__contains__", <<key>>,
                        InProperties(key) \/ NodeState__contains__(r.node_state[1], key),
                        r.made)
    /\ UNCHANGED <<_context, _lifecycle_state, storage, invoked_with, others, last_set>>

\* __contains__ that answers False, instead of fetching, when there is no node
\* in context.
CloudifyContext__contains__lenient(key) ==
    IF InProperties(key)
    THEN /\ result' = Returned("__contains__", <<key>>, TRUE, <<>>)
         /\ UNCHANGED <<_context, _node_state, _lifecycle_state, storage, calls, invoked_with, others, last_set>>
    ELSE IF node_id = None
    THEN /\ result' = Returned("__contains__", <<key>>, FALSE, <<>>)
         /\ UNCHANGED <<_context, _node_state, _lifecycle_state, storage, calls, invoked_with, others, last_set>>
    ELSE LET r == _get_node_state_if_needed(_node_state) IN
         /\ CanCall(r.made)
         /\ _node_state' = r.node_state
         /\ calls' = calls \o r.made
         /\ result' = Returned("__contains__", <<key>>,
                               NodeState__contains__(r.node_state[1], key), r.made)
         /\ UNCHANGED <<_context, _lifecycle_state, storage, invoked_with, others, last_set>>

\* CloudifyContext.__contains__(key)
CloudifyContext__contains__(key) ==
    IF InProperties(key)
    THEN /\ result' = Returned("__contains__", <<key>>, TRUE, <<>>)
         /\ UNCHANGED <<_context, _node_state, _lifecycle_state, storage, calls, invoked_with, others, last_set>>
    ELSE LET r == _get_node_state_if_needed(_node_state) IN
         /\ CanCall(r.made)
         /\ _node_state' = r.node_state
         /\ calls' = calls \o r.made
         /\ result' =
               IF r.raised
               THEN Raised("__contains__", <<key>>, NoNodeInContext, r.made)
               ELSE Returned("__contains__", <<key>>,
                             NodeState__contains__(r.node_state[1], key), r.made)
         /\ UNCHANGED <<_context, _lifecycle_state, storage, invoked_with, others, last_set>>

\* update() that forgets the update_node_state call and only clears the cache.
update_discards_unsaved ==
    /\ _node_state' = None
    /\ result' = Returned("update", <<>>, None, <<>>)
    /\ UNCHANGED <<_context, _lifecycle_state, storage, calls, invoked_with, others, last_set>>

\* update() without `self._node_state = None`: the flushed state stays cached.
update_keeps_cache ==
    IF _node_state # None
    THEN /\ CanCall(<<UPDATE_NODE_STATE>>)
         /\ storage' = update_node_state(_node_state[1])
         /\ calls' = Append(calls, UPDATE_NODE_STATE)
         /\ result' = Returned("update", <<>>, None, <<UPDATE_NODE_STATE>>)
         /\ UNCHANGED <<_context, _node_state, _lifecycle_state, invoked_with, others, last_set>>
    ELSE /\ result' = Returned("update", <<>>, None, <<>>)
         /\ UNCHANGED <<_context, _node_state, _lifecycle_state, storage, calls, invoked_with, others, last_set>>

\* update() without the `self._node_state is not None` test: the state is
\* fetched when it is not cached, and then flushed.
update_unconditional ==
    LET r == _get_node_state_if_needed(_node_state) IN
    IF r.raised
    THEN /\ result' = Raised("update", <<>>, NoNodeInContext, <<>>)
         /\ UNCHANGED <<_context, _node_state, _lifecycle_state, storage, calls, invoked_with, others, last_set>>
    ELSE /\ CanCall(r.made \o <<UPDATE_NODE_STATE>>)
         /\ storage' = update_node_state(r.node_state[1])
         /\ calls' = calls \o r.made \o <<UPDATE_NODE_STATE>>
         /\ _node_state' = None
         /\ result' = Returned("update", <<>>, None, r.made \o <<UPDATE_NODE_STATE>>)
         /\ UNCHANGED <<_context, _lifecycle_state, invoked_with, others, last_set>>

\* CloudifyContext.update()
update ==
    IF _node_state # None
    THEN /\ CanCall(<<UPDATE_NODE_STATE>>)
         /\ storage' = update_node_state(_node_state[1])
         /\ calls' = Append(calls, UPDATE_NODE_STATE)
         /\ _node_state' = None
         /\ result' = Returned("update", <<>>, None, <<UPDATE_NODE_STATE>>)
         /\ UNCHANGED <<_context, _lifecycle_state, invoked_with, others, last_set>>
    ELSE /\ result' = Returned("update", <<>>, None, <<>>)
         /\ UNCHANGED <<_context, _node_state, _lifecycle_state, storage, calls, invoked_with, others, last_set>>

\* update() with the cache cleared in a `finally`: the state is discarded
\* also when update_node_state raised.
update_raises_discards ==
    /\ _node_state # None
    /\ CanCall(<<UPDATE_NODE_STATE>>)
    /\ calls' = Append(calls, UPDATE_NODE_STATE)
    /\ storage' \in {storage, update_node_state(_node_state[1])}
    /\ _node_state' = None
    /\ result' = Raised("update", <<>>, StorageError, <<UPDATE_NODE_STATE>>)
    /\ UNCHANGED <<_context, _lifecycle_state, invoked_with, others, last_set>>

\* CloudifyContext.update() when update_node_state raises: the exception
\* leaves update() before `self._node_state = None`.  The storage may or may
\* not have taken the record before it failed.
update_raises ==
    /\ _node_state # None
    /\ CanCall(<<UPDATE_NODE_STATE>>)
    /\ calls' = Append(calls, UPDATE_NODE_STATE)
    /\ storage' \in {storage, update_node_state(_node_state[1])}
    /\ result' = Raised("update", <<>>, StorageError, <<UPDATE_NODE_STATE>>)
    /\ UNCHANGED <<_context, _node_state, _lifecycle_state, invoked_with, others, last_set>>

\* CloudifyContext.is_set_started() and is_set_stopped()
is_set_started == _lifecycle_state = Some(STARTED)
is_set_stopped == _lifecycle_state = Some(STOPPED)

\* _verify_node_in_context(): whether it raises.
_verify_node_in_context == node_id = None

\* set_started() without the _verify_node_in_context() call.
set_started_unverified ==
    /\ _lifecycle_state' = Some(STARTED)
    /\ result' = Returned("set_started", <<>>, None, <<>>)
    /\ UNCHANGED <<_context, _node_state, storage, calls, invoked_with, others, last_set>>

\* CloudifyContext.set_started()
set_started ==
    IF _verify_node_in_context
    THEN /\ result' = Raised("set_started", <<>>, NodeRequired, <<>>)
         /\ UNCHANGED <<_context, _node_state, _lifecycle_state, storage, calls, invoked_with, others, last_set>>
    ELSE /\ _lifecycle_state' = Some(STARTED)
         /\ result' = Returned("set_started", <<>>, None, <<>>)
         /\ UNCHANGED <<_context, _node_state, storage, calls, invoked_with, others, last_set>>

\* set_stopped() assigning the flag of set_started().
set_stopped_sets_started ==
    IF _verify_node_in_context
    THEN /\ result' = Raised("set_stopped", <<>>, NodeRequired, <<>>)
         /\ UNCHANGED <<_context, _node_state, _lifecycle_state, storage, calls, invoked_with, others, last_set>>
    ELSE /\ _lifecycle_state' = Some(STARTED)
         /\ result' = Returned("set_stopped", <<>>, None, <<>>)
         /\ UNCHANGED <<_context, _node_state, storage, calls, invoked_with, others, last_set>>

\* CloudifyContext.set_stopped()
set_stopped ==
    IF _verify_node_in_context
    THEN /\ result' = Raised("set_stopped", <<>>, NodeRequired, <<>>)
         /\ UNCHANGED <<_context, _node_state, _lifecycle_state, storage, calls, invoked_with, others, last_set>>
    ELSE /\ _lifecycle_state' = Some(STOPPED)
         /\ result' = Returned("set_stopped", <<>>, None, <<>>)
         /\ UNCHANGED <<_context, _node_state, storage, calls, invoked_with, others, last_set>>

\* ------------------------------------------------------------------ specifications

\* The payloads of an invocation on a node: each field present or absent.
NodePayloads ==
    {Restrict(full, D) : full \in [node_id : NodeIds, node_properties : Dicts(Keys, Values)],
                         D \in SUBSET {"node_id", "node_properties"}}

\* What CloudifyContext.__init__ leaves when the payload has no 'related'
\* record, in a process whose loggers have no handlers yet.
LoggerNames == {"cloudify_plugin", "my_plugin.tasks.start"}
PlainLogger == [handlers |-> <<>>, level |-> "NOTSET", propagate |-> TRUE]
NothingElse ==
    /\ _logger = None
    /\ loggers = [n \in LoggerNames |-> PlainLogger]
    /\ _related = None
    /\ constructed = "yes"
    /\ last_set = EmptyDict

\* The state after CloudifyContext(ctx), for a storage that holds some record
\* for every node.
Init ==
    /\ _context \in NodePayloads
    /\ _node_state = None
    /\ _lifecycle_state = None
    /\ storage \in [NodeIds -> Dicts(Keys, Values)]
    /\ invoked_with = storage
    /\ calls = <<>>
    /\ NothingElse
    /\ result = Constructed

Next ==
    \/ runtime_properties
    \/ \E key \in Keys : CloudifyContext__getitem__(key)
    \/ \E key \in Keys, value \in Values :
          CloudifyContext__setitem__(key, value) /\ UNCHANGED last_set
    \/ \E key \in Keys : CloudifyContext__contains__(key)
    \/ update

\* The context of one invocation, used by the one task that owns it.
Spec == Init /\ [][Next]_vars

\* The lifecycle flag of the context, set while the node's state is fetched
\* and flushed.
LifeNext ==
    \/ set_started
    \/ set_stopped
    \/ runtime_properties
    \/ update

LifeSpec == Init /\ [][LifeNext]_vars

\* The context on a storage whose update_node_state may fail.  None of its
\* operations reads the declared properties, so the payload carries none.
FaultyInit == Init /\ "node_properties" \notin DOMAIN _context

FaultyNext ==
    \/ runtime_properties
    \/ \E key \in Keys, value \in Values :
          CloudifyContext__setitem__(key, value) /\ UNCHANGED last_set
    \/ update
    \/ update_raises

FaultySpec == FaultyInit /\ [][FaultyNext]_vars

\* The context with the runtime properties set in the invocation remembered:
\* an indexed set that returned records its value under its key.
RywNext ==
    \/ \E key \in Keys : CloudifyContext__getitem__(key)
    \/ \E key \in Keys, value \in Values :
          /\ CloudifyContext__setitem__(key, value)
          /\ last_set' = IF node_id # None THEN DictPut(last_set, key, value) ELSE last_set
    \/ update

RywSpec == Init /\ [][RywNext]_vars

\* The nodes a relationship can relate the node in context to.
RelatedIds == {"vm1", "vm2"}

\* The payloads of a relationship-scoped invocation: 'node_id',
\* 'node_properties', 'capabilities', 'related' and the fields 'node_id' and
\* 'node_properties' of the related record are each present or absent.
RelatedPayloads ==
    {Restrict([node_id |-> n, node_properties |-> EmptyDict, capabilities |-> c, related |-> r], D) :
        n \in NodeIds,
        c \in UNION {[N -> Dicts(Keys, CapValues)] : N \in SUBSET RelatedIds},
        r \in {Restrict(full, F) :
                  full \in [node_id : RelatedIds, node_properties : Dicts(Keys, CapValues)],
                  F \in SUBSET {"node_id", "node_properties"}},
        D \in SUBSET {"node_id", "node_properties", "capabilities", "related"}}

\* The result variable before any operation.
NoResult == [op |-> "", args |-> <<>>, status |-> "ok", value |-> None, made |-> <<>>]

\* A payload handed to a task, before CloudifyContext(ctx) is called on it.
RelInit ==
    /\ _context \in RelatedPayloads
    /\ _node_state = None
    /\ _lifecycle_state = None
    /\ storage = [n \in NodeIds |-> EmptyDict]
    /\ invoked_with = storage
    /\ calls = <<>>
    /\ _logger = None
    /\ loggers = [n \in LoggerNames |-> PlainLogger]
    /\ _related = None
    /\ constructed = "no"
    /\ last_set = EmptyDict
    /\ result = NoResult

\* CloudifyContext(ctx)
CloudifyContext__init__ ==
    /\ constructed = "no"
    /\ _logger' = None
    /\ _node_state' = None
    /\ _lifecycle_state' = None
    /\ IF "related" \in DOMAIN _context
       THEN LET r == CloudifyRelatedNode__init__(_context) IN
            /\ _related' = r.node
            /\ constructed' = IF r.raised THEN "failed" ELSE "yes"
            /\ result' = IF r.raised
                         THEN Raised("__init__", <<>>, KeyErrorNodeId, <<>>)
                         ELSE Constructed
       ELSE /\ _related' = None
            /\ constructed' = "yes"
            /\ result' = Constructed
    /\ UNCHANGED <<_context, storage, calls, invoked_with, loggers, last_set>>

\* The read-only accessors that return self._context.get(field), with the
\* field each of them reads.
AccessorField ==
    [node_id |-> "node_id", node_name |-> "node_name", properties |-> "node_properties",
     blueprint_id |-> "blueprint_id", deployment_id |-> "deployment_id",
     execution_id |-> "execution_id", workflow_id |-> "workflow_id",
     task_id |-> "task_id", task_name |-> "task_name", task_target |-> "task_target",
     plugin |-> "plugin", operation |-> "operation"]

\* ctx.node_id, ctx.node_name, ctx.properties, ... ctx.operation
Accessor(name) ==
    /\ constructed = "yes"
    /\ result' = Returned(name, <<>>, DictGet(_context, AccessorField[name]), <<>>)
    /\ UNCHANGED <<_context, _node_state, _lifecycle_state, storage, calls, invoked_with, others, last_set>>

\* ctx.capabilities: the ContextCapabilities object, told by the dict it holds.
capabilities ==
    /\ constructed = "yes"
    /\ result' = Returned("capabilities", <<>>, _capabilities, <<>>)
    /\ UNCHANGED <<_context, _node_state, _lifecycle_state, storage, calls, invoked_with, others, last_set>>

\* ctx.related: the CloudifyRelatedNode, or None.
related ==
    /\ constructed = "yes"
    /\ result' = Returned("related", <<>>, _related, <<>>)
    /\ UNCHANGED <<_context, _node_state, _lifecycle_state, storage, calls, invoked_with, others, last_set>>

\* ctx.related.node_id, ctx.related.properties, ctx.related.runtime_properties
RelatedAccessor ==
    /\ constructed = "yes"
    /\ _related # None
    /\ result' \in {CloudifyRelatedNode_node_id(_related[1]),
                    CloudifyRelatedNode_properties(_related[1]),
                    CloudifyRelatedNode_runtime_properties(_related[1])}
    /\ UNCHANGED <<_context, _node_state, _lifecycle_state, storage, calls, invoked_with, others, last_set>>

\* ctx.related[key]
RelatedGetItem ==
    /\ constructed = "yes"
    /\ _related # None
    /\ \E key \in Keys : result' = CloudifyRelatedNode__getitem__(_related[1], key)
    /\ UNCHANGED <<_context, _node_state, _lifecycle_state, storage, calls, invoked_with, others, last_set>>

\* key in ctx.related
RelatedContains ==
    /\ constructed = "yes"
    /\ _related # None
    /\ \E key \in Keys : result' = CloudifyRelatedNode__contains__(_related[1], key)
    /\ UNCHANGED <<_context, _node_state, _lifecycle_state, storage, calls, invoked_with, others, last_set>>

RelNext ==
    \/ CloudifyContext__init__
    \/ \E name \in DOMAIN AccessorField : Accessor(name)
    \/ capabilities
    \/ related
    \/ RelatedAccessor
    \/ RelatedGetItem
    \/ RelatedContains

\* The construction of a context from a payload and the reads of what the
\* payload carries.
RelSpec == RelInit /\ [][RelNext]_vars

\* The handlers other code of the process may have attached to a logger.
HandlerNames == <<"StreamHandler", "FileHandler", "SysLogHandler", "NullHandler", "SocketHandler">>
PriorHandlers == {HandlerNames[i] : i \in 1..MaxHandlers}
\* The handler the context attaches: CloudifyPluginLoggingHandler(self).
CONTEXT_HANDLER == "CloudifyPluginLoggingHandler"
INFO == "INFO"

\* Logger.removeHandler(h): the handlers without the first occurrence of h.
RECURSIVE removeHandler(_, _)
removeHandler(handlers, h) ==
    IF handlers = <<>> THEN <<>>
    ELSE IF Head(handlers) = h THEN Tail(handlers)
    ELSE <<Head(handlers)>> \o removeHandler(Tail(handlers), h)

\* `for h in self._logger.handlers: self._logger.removeHandler(h)` from the
\* i-th step of the iteration on: the iterator reads position i of the list
\* as it is by then, and stops when i is past its end.
RECURSIVE remove_handlers_loop(_, _)
remove_handlers_loop(handlers, i) ==
    IF i > Len(handlers) THEN handlers
    ELSE remove_handlers_loop(removeHandler(handlers, handlers[i]), i + 1)

\* The name _init_cloudify_logger asks logging.getLogger for.
logger_name ==
    IF DictGet(_context, "task_name") # None THEN _context["task_name"] ELSE "cloudify_plugin"

\* _init_cloudify_logger(): the logging registry after it.
_init_cloudify_logger ==
    [loggers EXCEPT ![logger_name] =
        [handlers |-> Append(remove_handlers_loop(@.handlers, 1), CONTEXT_HANDLER),
         level |-> INFO,
         propagate |-> TRUE]]

\* CloudifyContext.logger
logger ==
    /\ constructed = "yes"
    /\ IF _logger = None
       THEN /\ loggers' = _init_cloudify_logger
            /\ _logger' = Some(logger_name)
            /\ result' = Returned("logger", <<>>, logger_name, <<>>)
       ELSE /\ UNCHANGED <<loggers, _logger>>
            /\ result' = Returned("logger", <<>>, _logger[1], <<>>)
    /\ UNCHANGED <<_context, _node_state, _lifecycle_state, storage, calls, invoked_with,
                   _related, constructed, last_set>>

\* The loggers of a process when the context is made: each with any prior
\* handlers, each handler attached once, and propagating or not.
PriorLoggers ==
    {[handlers |-> o, level |-> "NOTSET", propagate |-> p] :
        o \in UNION {Orders(H) : H \in SUBSET PriorHandlers}, p \in BOOLEAN}

\* The state after CloudifyContext(ctx) for a payload with or without a task
\* name, in a process whose loggers may have handlers already.
LogInit ==
    /\ _context \in {Restrict([task_name |-> "my_plugin.tasks.start"], D) :
                        D \in SUBSET {"task_name"}}
    /\ _node_state = None
    /\ _lifecycle_state = None
    /\ storage = [n \in NodeIds |-> EmptyDict]
    /\ invoked_with = storage
    /\ calls = <<>>
    /\ _logger = None
    /\ loggers \in [LoggerNames -> PriorLoggers]
    /\ _related = None
    /\ constructed = "yes"
    /\ last_set = EmptyDict
    /\ result = Constructed

LogNext == logger

\* The context-bound logger, asked for any number of times.
LogSpec == LogInit /\ [][LogNext]_vars

\* The payloads that carry capabilities: none, or the runtime properties of
\* any set of dependency nodes.
CapabilityPayloads ==
    {Restrict([capabilities |-> c], D) :
        c \in UNION {[N -> Dicts(Keys, CapValues)] : N \in SUBSET DepIds},
        D \in SUBSET {"capabilities"}}

CapInit ==
    /\ _context \in CapabilityPayloads
    /\ _node_state = None
    /\ _lifecycle_state = None
    /\ storage = [n \in NodeIds |-> EmptyDict]
    /\ invoked_with = storage
    /\ calls = <<>>
    /\ NothingElse
    /\ result = Constructed

\* ctx.capabilities[key]
CapGetItem ==
    /\ \E key \in Keys, order \in Orders(DOMAIN _capabilities) :
            result' = ContextCapabilities__getitem__(key, order)
    /\ UNCHANGED <<_context, _node_state, _lifecycle_state, storage, calls, invoked_with, others, last_set>>

\* key in ctx.capabilities
CapContains ==
    /\ \E key \in Keys, order \in Orders(DOMAIN _capabilities) :
            result' = ContextCapabilities__contains__(key, order)
    /\ UNCHANGED <<_context, _node_state, _lifecycle_state, storage, calls, invoked_with, others, last_set>>

\* ctx.capabilities.get_all()
CapGetAll ==
    /\ result' = get_all
    /\ UNCHANGED <<_context, _node_state, _lifecycle_state, storage, calls, invoked_with, others, last_set>>

CapNext == CapGetItem \/ CapContains \/ CapGetAll

\* The capabilities of a context, read in any order any number of times.
CapSpec == CapInit /\ [][CapNext]_vars

\* ------------------------------------------------------------------ properties

\* The number of calls of `name` among the storage calls `log`.
Count(log, name) == Cardinality({i \in DOMAIN log : log[i] = name})
\* The number of get_node_state calls made after the last update_node_state.
GetsSinceLastFlush ==
    LET flushes == {i \in DOMAIN calls : calls[i] = UPDATE_NODE_STATE}
        last == IF flushes = {} THEN 0 ELSE CHOOSE i \in flushes : \A j \in flushes : j <= i
    IN Cardinality({i \in DOMAIN calls : i > last /\ calls[i] = GET_NODE_STATE})
\* The operation recorded in res is an access that needs the node's state:
\* runtime_properties, an indexed set, or an indexed get / membership check of
\* a key that is not a declared property.
NeedsStorage(res) ==
    \/ res.op \in {"runtime_properties", "__setitem__"}
    \/ res.op \in {"__getitem__", "__contains__"} /\ ~InProperties(res.args[1])

\* C1: with a node in context, as long as no update() has flushed the state,
\* get_node_state has been called at most once; once an operation that needs
\* the state has run it has been called exactly once and the NodeState is
\* cached, however many such operations ran.
C1_FetchedOnce ==
    (node_id # None /\ Count(calls, UPDATE_NODE_STATE) = 0) =>
        /\ Count(calls, GET_NODE_STATE) <= 1
        /\ NeedsStorage(result) =>
              /\ Count(calls, GET_NODE_STATE) = 1
              /\ _node_state # None
        /\ (_node_state # None) <=> (Count(calls, GET_NODE_STATE) = 1)
\* An access that needed the state found it cached and made no storage call.
C1_Witness ==
    /\ result.op = "__getitem__" /\ ~InProperties(result.args[1])
    /\ result.status = "ok"
    /\ result.made = <<>>
    /\ calls = <<GET_NODE_STATE>>

\* C2: after every update() the cache is empty, and it stays empty until an
\* access needs the state; after such an access the state is cached and exactly
\* one get_node_state call was made since the last flush, in every fetch/flush
\* cycle of the invocation.
C2_RefetchAfterFlush ==
    /\ result.op = "update" => _node_state = None /\ GetsSinceLastFlush = 0
    /\ (calls # <<>> /\ calls[Len(calls)] = UPDATE_NODE_STATE) => _node_state = None
    /\ (node_id # None /\ NeedsStorage(result)) =>
          /\ _node_state # None
          /\ GetsSinceLastFlush = 1
\* The second flush of the invocation was followed by an access that fetched.
C2_Witness ==
    /\ Count(calls, UPDATE_NODE_STATE) = 2
    /\ result.op = "runtime_properties"
    /\ result.made = <<GET_NODE_STATE>>
    /\ _node_state # None

\* C3: an update() made while no NodeState is cached makes no storage call and
\* leaves the cache, the lifecycle flag and the storage as they were; so does
\* an update() that directly follows an update().
C3_UpdateWithoutStateIsNoOp ==
    [][(result'.op = "update" /\ (_node_state = None \/ result.op = "update")) =>
          /\ result'.made = <<>>
          /\ result'.status = "ok"
          /\ calls' = calls
          /\ _node_state = None /\ _node_state' = None
          /\ _lifecycle_state' = _lifecycle_state
          /\ storage' = storage]_vars
\* An update() ran with nothing cached, after an earlier flush.
C3_Witness ==
    /\ result.op = "update"
    /\ result.made = <<>>
    /\ calls # <<>> /\ calls[Len(calls)] = UPDATE_NODE_STATE

\* C4: the storage calls alternate get_node_state, update_node_state,
\* get_node_state, ..., starting with get_node_state.
C4_CallsAlternate ==
    \A i \in DOMAIN calls :
        calls[i] = IF i % 2 = 1 THEN GET_NODE_STATE ELSE UPDATE_NODE_STATE
\* Two load-cycles, each ended by update().
C4_Witness ==
    /\ Len(calls) >= 4
    /\ result.op = "update"
    /\ result.made = <<UPDATE_NODE_STATE>>

\* The dependency nodes whose runtime properties hold the capability `key`.
Holders(key) == {n \in DOMAIN _capabilities : key \in DOMAIN _capabilities[n]}
\* The last operation was ctx.capabilities[key] / key in ctx.capabilities.
IsCapGet(key) == result.op = "capabilities.__getitem__" /\ result.args = <<key>>
IsCapContains(key) == result.op = "capabilities.__contains__" /\ result.args = <<key>>

\* C5 as stated: for a capability key held by two or more dependency nodes,
\* the indexed get fails with CapabilityAmbiguous and the membership check
\* returns true.
C5_ContainsTrueWhenAmbiguous ==
    \A key \in Keys : Cardinality(Holders(key)) >= 2 =>
        /\ IsCapGet(key) => result.status = CapabilityAmbiguous
        /\ IsCapContains(key) => result.status = "ok" /\ result.value = Some(TRUE)
\* C5, amended: for a capability key held by two or more dependency nodes,
\* the indexed get and the membership check both fail with CapabilityAmbiguous.
C5_BothFailWhenAmbiguous ==
    \A key \in Keys : Cardinality(Holders(key)) >= 2 =>
        /\ IsCapGet(key) => result.status = CapabilityAmbiguous /\ result.value = None
        /\ IsCapContains(key) => result.status = CapabilityAmbiguous /\ result.value = None
\* A membership check was made of a key that three dependency nodes hold.
C5_Witness ==
    \E key \in Keys :
        /\ Cardinality(Holders(key)) >= 3
        /\ IsCapContains(key)
        /\ result.status = CapabilityAmbiguous

\* C6: for a capability key held by exactly one dependency node, the indexed
\* get returns the value that node holds under the key and the membership
\* check returns true, whatever the number of dependency nodes and the order
\* in which their maps are scanned.
C6_UniqueCapabilityResolves ==
    \A key \in Keys : \A n \in DOMAIN _capabilities : Holders(key) = {n} =>
        /\ IsCapGet(key) => result.status = "ok" /\ result.value = Some(_capabilities[n][key])
        /\ IsCapContains(key) => result.status = "ok" /\ result.value = Some(TRUE)
\* A key held by one of several dependency nodes was read.
C6_Witness ==
    \E key \in Keys :
        /\ Cardinality(Holders(key)) = 1
        /\ Cardinality(DOMAIN _capabilities) >= 3
        /\ IsCapGet(key)
        /\ result.status = "ok"

\* C7: for a capability key that no dependency node holds, also when the
\* payload has no capabilities or empty ones, the indexed get fails with
\* CapabilityNotFound and the membership check returns false.
C7_MissingCapability ==
    \A key \in Keys : Holders(key) = {} =>
        /\ IsCapGet(key) => result.status = CapabilityNotFound /\ result.value = None
        /\ IsCapContains(key) => result.status = "ok" /\ result.value = Some(FALSE)
\* A capability was read from a payload that has no capabilities at all.
C7_Witness ==
    /\ "capabilities" \notin DOMAIN _context
    /\ result.op = "capabilities.__getitem__"
    /\ result.status = CapabilityNotFound

\* C8: an indexed get of a key that is a declared property returns the
\* declared value, whatever the node's runtime properties hold under that key,
\* also after ctx[key] = v in the same invocation.
C8_DeclaredWins ==
    \A key \in Keys :
        (result.op = "__getitem__" /\ result.args = <<key>> /\ InProperties(key)) =>
            /\ result.status = "ok"
            /\ result.value = Some(properties[1][key])
\* A declared key was read while the cached NodeState holds another value
\* under it, one that was set in this invocation and is not persisted.
C8_Witness ==
    \E key \in Keys :
        /\ result.op = "__getitem__" /\ result.args = <<key>>
        /\ InProperties(key)
        /\ _node_state # None
        /\ key \in DOMAIN _node_state[1].runtime_properties
        /\ _node_state[1].runtime_properties[key] # properties[1][key]
        /\ DictGet(storage[node_id[1]], key) # Some(_node_state[1].runtime_properties[key])

\* C9: an indexed set changes nothing of the payload, so no declared property;
\* with a node in context it returns, fetches the NodeState when none is
\* cached, and leaves the cache holding the runtime properties it had (or the
\* fetched ones) with value under key; the storage is not written.
C9_SetWritesOnlyNodeState ==
    [][result'.op = "__setitem__" =>
          /\ _context' = _context
          /\ storage' = storage
          /\ node_id # None =>
                LET held == IF _node_state = None
                            THEN storage[node_id[1]]
                            ELSE _node_state[1].runtime_properties
                IN /\ result'.status = "ok"
                   /\ result'.made = IF _node_state = None THEN <<GET_NODE_STATE>> ELSE <<>>
                   /\ _node_state' # None
                   /\ _node_state'[1].id = node_id[1]
                   /\ _node_state'[1].runtime_properties =
                         DictPut(held, result'.args[1], result'.args[2])]_vars
\* A declared key was set, on a context that had to fetch the NodeState, to a
\* value other than the declared one.
C9_Witness ==
    /\ result.op = "__setitem__"
    /\ result.status = "ok"
    /\ result.made = <<GET_NODE_STATE>>
    /\ InProperties(result.args[1])
    /\ properties[1][result.args[1]] # result.args[2]
    /\ _node_state[1].runtime_properties[result.args[1]] = result.args[2]

\* C10: an indexed set makes no update_node_state call; only update() changes
\* the storage; and as long as no update() has flushed, the storage holds what
\* it held when the invocation started.
C10_WritesDeferred ==
    /\ [](result.op = "__setitem__" => result.made \in {<<>>, <<GET_NODE_STATE>>})
    /\ [](Count(calls, UPDATE_NODE_STATE) = 0 => storage = invoked_with)
    /\ [][result'.op # "update" => storage' = storage]_vars
\* A set left the cached NodeState different from the persisted record, which
\* is still the one the invocation started with.
C10_Witness ==
    /\ result.op = "__setitem__"
    /\ result.status = "ok"
    /\ Count(calls, UPDATE_NODE_STATE) = 0
    /\ _node_state[1].runtime_properties # storage[node_id[1]]
    /\ storage = invoked_with

\* The exception of an operation that requires a node in context.
IsNoNodeInContext(status) == status \in {NoNodeInContext, NodeRequired}

\* C11: without a node identifier in the payload, set_started(), set_stopped()
\* and runtime_properties each raise the no-node-in-context RuntimeError and make no
\* storage call; no storage call is ever made, the lifecycle flag stays unset
\* and no NodeState is cached.
C11_NoNodeFails ==
    node_id = None =>
        /\ result.op \in {"set_started", "set_stopped", "runtime_properties"} =>
              /\ IsNoNodeInContext(result.status)
              /\ result.made = <<>>
        /\ calls = <<>>
        /\ _lifecycle_state = None
        /\ ~is_set_started /\ ~is_set_stopped
        /\ _node_state = None
\* set_stopped() was called on a context without a node.
C11_Witness ==
    /\ node_id = None
    /\ result.op = "set_stopped"
    /\ result.status = NodeRequired

\* C17: is_set_started() and is_set_stopped() are never both true; with a node
\* in context set_started() leaves only is_set_started() true and
\* set_stopped() only is_set_stopped(); a flag once set is never unset; and
\* set_started() / set_stopped() make no storage call and leave the cached
\* NodeState and the storage as they were.
C17_LifecycleFlag ==
    /\ [](~(is_set_started /\ is_set_stopped))
    /\ []((node_id # None /\ result.op = "set_started") =>
             result.status = "ok" /\ is_set_started /\ ~is_set_stopped)
    /\ []((node_id # None /\ result.op = "set_stopped") =>
             result.status = "ok" /\ is_set_stopped /\ ~is_set_started)
    /\ [][_lifecycle_state # None => _lifecycle_state' # None]_vars
    /\ [][result'.op \in {"set_started", "set_stopped"} =>
             /\ result'.made = <<>>
             /\ calls' = calls
             /\ _node_state' = _node_state
             /\ storage' = storage]_vars
\* set_stopped() overrode set_started() while a NodeState was cached.
C17_Witness ==
    /\ result.op = "set_stopped"
    /\ is_set_stopped
    /\ _node_state # None
    /\ Count(calls, UPDATE_NODE_STATE) >= 1

\* The operations that read or write the node's state through the context.
AccessOps == {"runtime_properties", "__getitem__", "__setitem__", "__contains__"}

\* C12: with a node in context, an indexed get of a key that is not a declared
\* property leaves the NodeState cached, fetching it when it was not, and
\* raises KeyError exactly when the NodeState does not hold the key; the
\* access that follows such a failure makes no storage call.
C12_MissingKeyKeepsCache ==
    /\ [](\A key \in Keys :
            (node_id # None /\ result.op = "__getitem__" /\ result.args = <<key>>
                /\ ~InProperties(key)) =>
                /\ _node_state # None
                /\ (result.status = KeyNotFound) <=>
                      (key \notin DOMAIN _node_state[1].runtime_properties)
                /\ result.status = KeyNotFound => result.value = None)
    /\ [][(result'.op = "__getitem__" /\ result'.status = KeyNotFound) =>
             /\ result'.made = IF _node_state = None THEN <<GET_NODE_STATE>> ELSE <<>>
             /\ _node_state' = IF _node_state = None
                               THEN Some([id |-> node_id[1],
                                          runtime_properties |-> storage[node_id[1]]])
                               ELSE _node_state]_vars
    /\ [][(result.op = "__getitem__" /\ result.status = KeyNotFound
              /\ result'.op \in AccessOps) =>
             /\ result'.made = <<>>
             /\ calls' = calls]_vars
\* A get of a key found nowhere fetched the NodeState and failed.
C12_Witness ==
    /\ result.op = "__getitem__"
    /\ result.status = KeyNotFound
    /\ result.made = <<GET_NODE_STATE>>
    /\ _node_state # None
    /\ properties # None

\* C16: an indexed get or a membership check of a declared key returns, makes
\* no storage call and leaves the cache and the storage as they were, with or
\* without a node in context; of a key that is not declared, with a node in
\* context and nothing cached, it fetches the NodeState.
C16_DeclaredHitNeedsNoState ==
    [][result'.op \in {"__getitem__", "__contains__"} =>
          /\ InProperties(result'.args[1]) =>
                /\ result'.status = "ok"
                /\ result'.made = <<>>
                /\ calls' = calls
                /\ _node_state' = _node_state
                /\ storage' = storage
          /\ (~InProperties(result'.args[1]) /\ node_id # None) =>
                /\ result'.made = IF _node_state = None THEN <<GET_NODE_STATE>> ELSE <<>>
                /\ _node_state' # None]_vars
\* A membership check of a declared key returned true without a node in context.
C16_Witness ==
    /\ node_id = None
    /\ result.op = "__contains__"
    /\ InProperties(result.args[1])
    /\ result.status = "ok"
    /\ result.value = Some(TRUE)
    /\ _node_state = None

\* C20: without a node identifier in the payload, a membership check and an
\* indexed get of a key that is not a declared property raise the
\* no-node-in-context RuntimeError, an indexed set raises it for every key,
\* and no storage call is made.
C20_NoNodeLookupsFail ==
    node_id = None =>
        /\ calls = <<>>
        /\ _node_state = None
        /\ (result.op \in {"__getitem__", "__contains__"} /\ ~InProperties(result.args[1])) =>
              /\ result.status = NoNodeInContext
              /\ result.value = None
              /\ result.made = <<>>
        /\ result.op = "__setitem__" =>
              /\ result.status = NoNodeInContext
              /\ result.made = <<>>
\* A declared key was set on a context without a node.
C20_Witness ==
    /\ node_id = None
    /\ result.op = "__setitem__"
    /\ InProperties(result.args[1])
    /\ result.status = NoNodeInContext

\* C18: an update() in which update_node_state raised leaves the cached
\* NodeState as it was, pending changes included; the accesses that follow
\* make no storage call; and the update() that follows calls update_node_state
\* again and, when that returns, has persisted that same NodeState and
\* cleared the cache.
C18_FailedUpdateKeepsState ==
    /\ []((result.op = "update" /\ result.status = StorageError) => _node_state # None)
    /\ [][(result'.op = "update" /\ result'.status = StorageError) =>
             /\ _node_state # None
             /\ _node_state' = _node_state]_vars
    /\ [][(result.op = "update" /\ result.status = StorageError
              /\ result'.op \in AccessOps) =>
             /\ result'.made = <<>>
             /\ calls' = calls]_vars
    /\ [][(result.op = "update" /\ result.status = StorageError /\ result'.op = "update") =>
             /\ result'.made = <<UPDATE_NODE_STATE>>
             /\ result'.status = "ok" =>
                   /\ storage'[node_id[1]] = _node_state[1].runtime_properties
                   /\ _node_state' = None]_vars
\* After a failed update() and with changes pending, a second update()
\* persisted them.
C18_Witness ==
    /\ result.op = "update"
    /\ result.status = "ok"
    /\ calls = <<GET_NODE_STATE, UPDATE_NODE_STATE, UPDATE_NODE_STATE>>
    /\ storage # invoked_with

\* C19: for every key that is not a declared property and was set in this
\* invocation, to v at last: while the NodeState is cached it holds v under
\* the key; an update() that flushed has persisted v under the key; with
\* nothing cached the storage holds v under the key; and an indexed get of the
\* key returns v, in the same load-cycle as well as after a flush and a
\* re-fetch.
C19_ReadYourWrites ==
    \A key \in DOMAIN last_set :
        ~InProperties(key) =>
            /\ _node_state # None =>
                  DictGet(_node_state[1].runtime_properties, key) = Some(last_set[key])
            /\ _node_state = None =>
                  DictGet(storage[node_id[1]], key) = Some(last_set[key])
            /\ (result.op = "update" /\ result.made = <<UPDATE_NODE_STATE>>) =>
                  DictGet(storage[node_id[1]], key) = Some(last_set[key])
            /\ (result.op = "__getitem__" /\ result.args = <<key>>) =>
                  /\ result.status = "ok"
                  /\ result.value = Some(last_set[key])
\* A value set in the invocation, and not what the storage held at its start,
\* was read back by a get that had to fetch the NodeState again after a flush.
C19_Witness ==
    \E key \in DOMAIN last_set :
        /\ ~InProperties(key)
        /\ result.op = "__getitem__" /\ result.args = <<key>>
        /\ result.made = <<GET_NODE_STATE>>
        /\ Count(calls, UPDATE_NODE_STATE) >= 1
        /\ result.value = Some(last_set[key])
        /\ DictGet(invoked_with[node_id[1]], key) # Some(last_set[key])

\* The runtime properties the related node view is to read, from the payload:
\* capabilities[related node id], empty when that id is not in the
\* capabilities or the payload has no capabilities.
RelatedRuntime ==
    LET rel == _context["related"] IN
    IF /\ "capabilities" \in DOMAIN _context
       /\ "node_id" \in DOMAIN rel
       /\ rel["node_id"] \in DOMAIN _context["capabilities"]
    THEN _context["capabilities"][rel["node_id"]]
    ELSE EmptyDict
\* The declared properties of the related node, from the payload.
RelatedDeclared == _context["related"]["node_properties"]
IsRelatedGet == result.op = "related.__getitem__"
IsRelatedContains == result.op = "related.__contains__"

\* C13: on a related node view whose record carries declared properties, get
\* of a key returns the declared value when the key is declared, otherwise the
\* value under the key in capabilities[related node id] (empty when that id is
\* not in the capabilities), and fails with KeyNotFound when the key is in
\* neither; the membership check of a key returns true exactly when the key is
\* declared or in those runtime properties.
C13_RelatedLookup ==
    (/\ _related # None
     /\ "node_properties" \in DOMAIN _context["related"]
     /\ (IsRelatedGet \/ IsRelatedContains)) =>
        LET key == result.args[1] IN
        /\ (IsRelatedGet /\ key \in DOMAIN RelatedDeclared) =>
              /\ result.status = "ok"
              /\ result.value = Some(RelatedDeclared[key])
        /\ (IsRelatedGet /\ key \notin DOMAIN RelatedDeclared /\ key \in DOMAIN RelatedRuntime) =>
              /\ result.status = "ok"
              /\ result.value = Some(RelatedRuntime[key])
        /\ (IsRelatedGet /\ key \notin DOMAIN RelatedDeclared /\ key \notin DOMAIN RelatedRuntime) =>
              result.status = KeyNotFound
        /\ IsRelatedContains =>
              /\ result.status = "ok"
              /\ result.value = Some(key \in DOMAIN RelatedDeclared \/ key \in DOMAIN RelatedRuntime)
\* A get returned the declared value of a key that capabilities[related node
\* id] holds with another value.
C13_Witness ==
    /\ _related # None
    /\ "node_properties" \in DOMAIN _context["related"]
    /\ IsRelatedGet
    /\ result.args[1] \in DOMAIN RelatedDeclared
    /\ result.args[1] \in DOMAIN RelatedRuntime
    /\ RelatedRuntime[result.args[1]] # RelatedDeclared[result.args[1]]
    /\ result.value = Some(RelatedDeclared[result.args[1]])

\* The accessors of the context and of the related node view that only read.
IsPayloadAccessor == result.op \in DOMAIN AccessorField
ReadOnlyAccessors ==
    DOMAIN AccessorField \cup {"capabilities", "related", "related.node_id",
                               "related.properties", "related.runtime_properties"}

\* C15 as claimed: for every payload with each field, those of the related
\* record included, present or absent, construction does not fail and no
\* read-only accessor fails.
C15_NothingFails ==
    /\ constructed # "failed"
    /\ result.op \in ReadOnlyAccessors => result.status = "ok"

\* C15: every top-level field of the payload is optional: the accessor of an
\* absent field returns None, of a present field its value, ctx.capabilities
\* holds the payload's capabilities or {} and ctx.related is None without a
\* related record; none of these fails.  The fields of a related record are
\* not optional: construction fails with KeyError exactly when the record has
\* no node id and the payload has capabilities, and the view's node_id and
\* properties fail with KeyError exactly when the record lacks the field, and
\* return it otherwise.
C15_OptionalButRelatedFields ==
    /\ constructed # "no" =>
          (constructed = "failed" <=>
              /\ "related" \in DOMAIN _context
              /\ "capabilities" \in DOMAIN _context
              /\ "node_id" \notin DOMAIN _context["related"])
    /\ constructed = "failed" => result.status = KeyErrorNodeId
    /\ IsPayloadAccessor =>
          /\ result.status = "ok"
          /\ AccessorField[result.op] \notin DOMAIN _context => result.value = Some(None)
          /\ AccessorField[result.op] \in DOMAIN _context =>
                result.value = Some(Some(_context[AccessorField[result.op]]))
    /\ result.op = "capabilities" =>
          /\ result.status = "ok"
          /\ "capabilities" \in DOMAIN _context => result.value = Some(_context["capabilities"])
          /\ "capabilities" \notin DOMAIN _context => result.value = Some(EmptyDict)
    /\ result.op = "related" =>
          /\ result.status = "ok"
          /\ "related" \notin DOMAIN _context <=> result.value = Some(None)
    /\ result.op = "related.node_id" =>
          IF "node_id" \in DOMAIN _context["related"]
          THEN result.status = "ok" /\ result.value = Some(_context["related"]["node_id"])
          ELSE result.status = KeyErrorNodeId
    /\ result.op = "related.properties" =>
          IF "node_properties" \in DOMAIN _context["related"]
          THEN result.status = "ok" /\ result.value = Some(_context["related"]["node_properties"])
          ELSE result.status = KeyErrorNodeProperties
    /\ result.op = "related.runtime_properties" => result.status = "ok"
\* A context was constructed from a payload with a related record and without
\* a node id, and its node_id accessor returned None.
C15_Witness ==
    /\ constructed = "yes"
    /\ "related" \in DOMAIN _context
    /\ "node_id" \notin DOMAIN _context
    /\ result.op = "node_id"
    /\ result.status = "ok"
    /\ result.value = Some(None)

\* C14: once the context holds its logger, whatever handlers the logger of
\* that name had before, its handlers are the context-aware handler alone.
C14_OnlyContextHandler ==
    _logger # None => loggers[_logger[1]].handlers = <<CONTEXT_HANDLER>>

====
